---- MODULE Spec2Model ----
(***************************************************************************)
(* The interactive router (snake_game.py) and the trace persistence        *)
(* (pcb_patcher.py) of qcoral/hackmit-2025 as a state machine.             *)
(*                                                                         *)
(* Real-world coordinates are integers counting 1e-4 mm, the precision to  *)
(* which parse_pcb.py rounds every pad position (round(..., 4)).           *)
(* Grid cells are pairs <<x, y>>.  The grid has the size of the source     *)
(* (80 x 40); what bounds the model is the number of moves of one attempt. *)
(***************************************************************************)
EXTENDS Integers, Sequences, FiniteSets, TLC

VARIABLES
    fp,            \* footprint_data.json: pads in load order, [key, x, y, net]
    nets,          \* schematic_data.json: the nets in order, each a list of pin keys
    pad_map,       \* run: pad key -> grid cell
    coord_to_pad,  \* run: grid cell -> pad key (the last pad mapped to the cell)
    occupied,      \* run: grid cell -> marker of the net whose trail took it
    net_index,     \* run: index of the net being routed (0-based, as in the source)
    snake,         \* run: the deque, head first
    direction,     \* run: the heading <<dx, dy>>
    trail,         \* run: the set of cells of the current attempt
    apple_idx,     \* run: index (0-based) into apples of the next pin to reach
    pc,            \* position of run: loop, running, collision, ack, advance,
                            \*   fatal, quit, finalwait, exit
    msg,           \* what the message row GRID_H+1 (row 0 for fatal) shows
    pcb,           \* text of hackmit_2025.kicad_pcb
    bak,           \* text of hackmit_2025.kicad_pcb.bak, or NoFile
    ret,           \* outcome of the last append_tracks call
    key,           \* the key the last getch returned
    restarted,     \* history: the collision message that made init_snake run
                   \*   again for the current net ("" on its first attempt)
    call           \* the arguments and locals of the function that the
                   \*   specifications of single functions follow; run has none

vars == <<fp, nets, pad_map, coord_to_pad, occupied, net_index, snake, direction,
          trail, apple_idx, pc, msg, pcb, bak, ret, key, restarted, call>>

\* What run never changes.
static == <<fp, nets, pad_map, coord_to_pad, call>>

----------------------------------------------------------------------------
(* Program constants *)

GRID_W == 80
GRID_H == 40
MAP_PADDING == 4
DEFAULT_PADDING == 2
NUM_NET_CHARS == 62
SEED_LEN == 3
UnitsPerMm == 10000

P_GRID_W == 60
P_GRID_H == 24
P_MAP_PADDING == 4
PADDING == 2

(* Bounds of the model *)

MaxMoves == 4
MaxWrapMoves == 10

\* JSON null in a pad's "net" field (net numbers of a board are >= 0).
None == -1

----------------------------------------------------------------------------
(* Helpers *)

Range(s) == { s[i] : i \in 1..Len(s) }

Max2(a, b) == IF a >= b THEN a ELSE b
Min2(a, b) == IF a <= b THEN a ELSE b

SetMin(S) == CHOOSE m \in S : \A e \in S : m <= e
SetMax(S) == CHOOSE m \in S : \A e \in S : m >= e

\* Python's round() of the rational n/d (n >= 0, d > 0): to nearest, ties to even.
RoundHalfEven(n, d) ==
    LET q == n \div d
        r == n % d
    IN  IF 2 * r < d THEN q
        ELSE IF 2 * r > d THEN q + 1
        ELSE IF q % 2 = 0 THEN q ELSE q + 1

----------------------------------------------------------------------------
(* snake_game.py: the pad index *)

\* load_pads: the (ref:pin, x, y) tuples in load order.
load_pads(data) == [ i \in 1..Len(data) |-> [key |-> data[i].key, x |-> data[i].x, y |-> data[i].y] ]

\* map_to_grid: the linear map of the pads' bounding box onto the usable cells.
map_to_grid(pads, width, height, padding) ==
    IF Len(pads) = 0 THEN << >>
    ELSE
    LET xs == { pads[i].x : i \in 1..Len(pads) }
        ys == { pads[i].y : i \in 1..Len(pads) }
        minx == SetMin(xs)
        miny == SetMin(ys)
        maxx == IF SetMax(xs) - minx = 0 THEN minx + UnitsPerMm ELSE SetMax(xs)
        maxy == IF SetMax(ys) - miny = 0 THEN miny + UnitsPerMm ELSE SetMax(ys)
        gw == Max2(1, width - padding * 2 - MAP_PADDING)
        gh == Max2(1, height - padding * 2 - MAP_PADDING)
    IN  [ i \in 1..Len(pads) |->
            [ key |-> pads[i].key,
              gx  |-> padding + MAP_PADDING \div 2
                        + RoundHalfEven((pads[i].x - minx) * (gw - 1), maxx - minx),
              gy  |-> padding + MAP_PADDING \div 2
                        + RoundHalfEven((pads[i].y - miny) * (gh - 1), maxy - miny) ] ]

\* pad_map[f"{ref}:{pn}"] = (x, y), filled in list order: a later entry replaces.
BuildPadMap(mapped) ==
    [ k \in { mapped[i].key : i \in 1..Len(mapped) } |->
        LET last == SetMax({ i \in 1..Len(mapped) : mapped[i].key = k })
        IN  <<mapped[last].gx, mapped[last].gy>> ]

\* coord_to_pad = { (x,y): key for ... }: the last pad of a cell is the one kept.
BuildCoordToPad(mapped) ==
    [ c \in { <<mapped[i].gx, mapped[i].gy>> : i \in 1..Len(mapped) } |->
        LET last == SetMax({ i \in 1..Len(mapped) : <<mapped[i].gx, mapped[i].gy>> = c })
        IN  mapped[last].key ]

----------------------------------------------------------------------------
(* Inputs.  Pad positions are 4 units per grid cell: the two corner pads   *)
(* Z:1 at (0,0) and Z:2 at (284,124) span the 71 x 31 usable steps, so a   *)
(* pad at (4i, 4j) maps to cell (4+i, 4+j) and one at (4i+1, 4j) shares    *)
(* that cell.                                                              *)

Pad(k, x, y, n) == [key |-> k, x |-> x, y |-> y, net |-> n]

B1Places == { <<20, 8>>, <<16, 4>> }
A2Places == { <<8, 8>>, <<16, 8>>, <<12, 12>>, <<17, 4>> }
NetIdxChoices == { <<1, 2>>, <<None, 2>> }

Footprints ==
    { << Pad("A:1", 12, 8, n[1]), Pad("A:2", a2[1], a2[2], n[2]),
         Pad("B:1", b1[1], b1[2], n[1]), Pad("B:2", 20, 12, n[2]),
         Pad("Z:1", 0, 0, None), Pad("Z:2", 284, 124, None) >> :
      <<b1, a2, n>> \in B1Places \X A2Places \X NetIdxChoices }

NetLists ==
    { << <<"A:1", "B:1">>, <<"A:2", "B:2">> >>,
      << <<"A:1", "B:1">>, <<"C:1", "C:2">>, <<"A:2", "B:2">> >>,
      << <<"A:1", "B:1", "B:2">>, <<"A:2", "C:1">> >> }

Tok(s) == <<s>>
Atom(s) == <<"atom", s>>

\* Board files: well formed; one parenthesis left open; not ending with ")".
Boards ==
    { << Tok("("), Atom("kicad_pcb"), Tok("nl"), Tok(")"), Tok("nl") >>,
      << Tok("("), Tok("("), Atom("kicad_pcb"), Tok(")"), Tok("nl") >>,
      << Tok("("), Atom("kicad_pcb"), Tok(")"), Atom("x"), Tok("nl") >> }


\* The backup file before any append_tracks call: it does not exist.
NoFile == << Tok("ENOENT") >>

----------------------------------------------------------------------------
(* pcb_patcher.py *)

\* compute_bounds_from_footprints: the pads' bounding box and the usable cells.
compute_bounds_from_footprints(data) ==
    LET xs == { data[i].x : i \in 1..Len(data) }
        ys == { data[i].y : i \in 1..Len(data) }
        minx == SetMin(xs)
        miny == SetMin(ys)
    IN  [ minx |-> minx,
          maxx |-> IF SetMax(xs) - minx = 0 THEN minx + UnitsPerMm ELSE SetMax(xs),
          miny |-> miny,
          maxy |-> IF SetMax(ys) - miny = 0 THEN miny + UnitsPerMm ELSE SetMax(ys),
          gw |-> Max2(1, P_GRID_W - PADDING * 2 - P_MAP_PADDING),
          gh |-> Max2(1, P_GRID_H - PADDING * 2 - P_MAP_PADDING) ]

\* The fraction fx (or fy) clamped to [0, 1], as numerator over den.
ClampNum(n, den) == Max2(0, Min2(den, n))

\* grid_to_pcb: the cell back to a real coordinate, rounded to 4 decimals.
grid_to_pcb(gx, gy, bounds) ==
    LET dx == Max2(1, bounds.gw - 1)
        dy == Max2(1, bounds.gh - 1)
        nx == ClampNum(gx - PADDING - P_MAP_PADDING \div 2, dx)
        ny == ClampNum(gy - PADDING - P_MAP_PADDING \div 2, dy)
    IN  << bounds.minx + RoundHalfEven(nx * (bounds.maxx - bounds.minx), dx),
           bounds.miny + RoundHalfEven(ny * (bounds.maxy - bounds.miny), dy) >>

\* One "(segment (start ..) (end ..) (width ..) (layer ..) (net ..))" line.
SegmentLine(a, b, bounds, net_idx) ==
    LET pa == grid_to_pcb(a[1], a[2], bounds)
        pb == grid_to_pcb(b[1], b[2], bounds)
    IN  << "segment", pa[1], pa[2], pb[1], pb[2], net_idx >>

\* One line per point, the last point joined back to the first.
SegLinesPerPoint(points, bounds, net_idx) ==
    [ i \in 1..Len(points) |->
        SegmentLine(points[i], points[IF i < Len(points) THEN i + 1 ELSE 1],
                    bounds, net_idx) ]

\* seg_lines: one line per adjacent pair of zip(points[:-1], points[1:]).
SegLines(points, bounds, net_idx) ==
    [ i \in 1..(IF Len(points) = 0 THEN 0 ELSE Len(points) - 1) |->
        SegmentLine(points[i], points[i + 1], bounds, net_idx) ]

IsSpace(t) == t = Tok("nl")

\* str.rstrip(): the text without its trailing whitespace.
RECURSIVE rstrip(_)
rstrip(t) ==
    IF Len(t) > 0 /\ IsSpace(t[Len(t)]) THEN rstrip(SubSeq(t, 1, Len(t) - 1)) ELSE t

\* "\n".join(lines), each line followed here by the newline that joins or ends it.
RECURSIVE JoinLines(_)
JoinLines(lines) ==
    IF Len(lines) = 0 THEN << >>
    ELSE << lines[1], Tok("nl") >> \o JoinLines(Tail(lines))

\* s_no_end + '\n' + '\n'.join(seg_lines) + '\n)\n'
NewText(orig, seg_lines) ==
    LET s == rstrip(orig)
        s_no_end == rstrip(SubSeq(s, 1, Len(s) - 1))
    IN  s_no_end \o << Tok("nl") >> \o JoinLines(seg_lines) \o << Tok(")"), Tok("nl") >>

\* Nesting depth after each token; a segment line is balanced in itself.
RECURSIVE Depth(_, _)
Depth(t, d) ==
    IF Len(t) = 0 \/ d < 0 THEN d
    ELSE Depth(Tail(t), IF t[1] = Tok("(") THEN d + 1
                        ELSE IF t[1] = Tok(")") THEN d - 1 ELSE d)

\* sexpdata.loads succeeds: the text is balanced and the parser did not fail
\* for a reason of its own (parser_fails).
LoadsOk(text, parser_fails) == Depth(text, 0) = 0 /\ ~parser_fails

\* The restore left out: the board keeps the text just written.
RestoreKeepsWritten(backup, written) == written

\* shutil.copy(kicad_pcb_path + '.bak', kicad_pcb_path): the restored board text.
Restore(backup, written) == backup

\* A backup taken only when there is none yet.
BackupIfAbsent(board, old_backup) == IF old_backup = NoFile THEN board ELSE old_backup

\* shutil.copy(kicad_pcb_path, kicad_pcb_path + '.bak'): the new backup text.
Backup(board, old_backup) == board

Returned(n) == [tag |-> "returned", n |-> n]
Raised(what) == [tag |-> what, n |-> 0]
NoCall == [tag |-> "none", n |-> 0]

\* append_tracks: the board text, the backup text and the outcome of one call.
append_tracks(board, backup, data, net_idx, ordered_grid_points, parser_fails) ==
    LET bak1 == Backup(board, backup)
        bounds == compute_bounds_from_footprints(data)
        seg_lines == SegLines(ordered_grid_points, bounds, net_idx)
        s == rstrip(board)
        new_text == NewText(board, seg_lines)
    IN  IF Len(seg_lines) = 0
          THEN [pcb |-> board, bak |-> bak1, ret |-> Returned(0)]
        ELSE IF Len(s) = 0 \/ s[Len(s)] # Tok(")")
          THEN [pcb |-> board, bak |-> bak1, ret |-> Raised("raised_format")]
        ELSE IF ~LoadsOk(new_text, parser_fails)
          THEN [pcb |-> Restore(bak1, new_text), bak |-> bak1, ret |-> Raised("raised_parse")]
        ELSE [pcb |-> new_text, bak |-> bak1, ret |-> Returned(Len(seg_lines))]


----------------------------------------------------------------------------
(* snake_game.py: run *)

Keys == { "none", "up", "down", "left", "right", "q" }

\* What a blocking getch can return: some key.
AckKeys == Keys \ { "none" }

KEY_MAP == [ k \in { "up", "down", "left", "right" } |->
               CASE k = "up"    -> <<0, -1>>
                 [] k = "down"  -> <<0, 1>>
                 [] k = "left"  -> <<-1, 0>>
                 [] k = "right" -> <<1, 0>> ]

\* coords / apples of net i: its pins that are in pad_map, in the net's order.
Apples(i) ==
    LET InPadMap(p) == p \in DOMAIN pad_map
    IN  SelectSeq(nets[i + 1], InPadMap)

\* ch = net_chars[net_index % len(net_chars)], as its index in net_chars.
NetChar(i) == i % NUM_NET_CHARS

StartCell(i) == pad_map[Apples(i)[1]]

\* init_snake: the three seed cells, head (the start pad) first.
SeedCells(start) ==
    [ i \in 1..SEED_LEN |-> << (start[1] - (i - 1)) % GRID_W, start[2] % GRID_H >> ]

\* init_snake with the trail of the aborted attempt kept.
InitTrailKeepsOld(s, old_trail) == Range(s) \cup old_trail

\* The trail set init_snake returns: set(s).
InitTrail(s, old_trail) == Range(s)

\* The pointer advancing on the cell of any pin still to come.
TargetHitAnyPin(n, apples, idx) ==
    \E i \in (idx + 1)..Len(apples) : n = pad_map[apples[i]]

\* (nx,ny) == (ax,ay): the head is on the cell of the pin apple_idx designates.
TargetHit(n, apples, idx) == n = pad_map[apples[idx + 1]]

\* A quit test that no key passes.
IsQuitNever(k) == FALSE

\* k == ord('q')
IsQuit(k) == k = "q"

\* fp.get(ref,{}).get('pads',{}).get(pin,{}).get('net')
PadNet(pin) ==
    IF \E i \in 1..Len(fp) : fp[i].key = pin
      THEN fp[CHOOSE i \in 1..Len(fp) : fp[i].key = pin].net
      ELSE None

\* direction after the key of this tick, a reversal taken like any other key.
NewDirectionAny(k, dir) == IF k \in DOMAIN KEY_MAP THEN KEY_MAP[k] ELSE dir

\* direction after the key of this tick: a reversal is ignored.
NewDirection(k, dir) ==
    IF k \in DOMAIN KEY_MAP
         /\ (KEY_MAP[k][1] # -dir[1] \/ KEY_MAP[k][2] # -dir[2])
      THEN KEY_MAP[k] ELSE dir

\* The head moved one cell and left where that is.
NextCellNoWrap(head, dir) == << head[1] + dir[1], head[2] + dir[2] >>

\* (nx, ny): the head moved one cell, wrapped around the grid.
NextCell(head, dir) ==
    << (head[1] + dir[1] + GRID_W) % GRID_W, (head[2] + dir[2] + GRID_H) % GRID_H >>

\* hit_pad is not None and hit_pad not in apples
HitsForeignPad(cell, apples) ==
    cell \in DOMAIN coord_to_pad /\ coord_to_pad[cell] \notin Range(apples)

\* occupied made anew from the trail.
MarkOccupiedAnew(occ, cells, ch) == [ c \in cells |-> ch ]

\* for coord in trail: occupied[coord] = ch
MarkOccupied(occ, cells, ch) ==
    [ c \in DOMAIN occ \cup cells |-> IF c \in cells THEN ch ELSE occ[c] ]

\* Some list of the cells of a set: list(trail_set).
RECURSIVE SetToList(_)
SetToList(S) ==
    IF S = {} THEN << >>
    ELSE LET e == CHOOSE x \in S : TRUE IN << e >> \o SetToList(S \ { e })

\* ordered_grid_points: the deque head to tail, then the trail cells not in it.
OrderedGridPoints(sn, tr) == sn \o SetToList(tr \ Range(sn))

Init ==
    /\ fp \in Footprints
    /\ nets \in NetLists
    /\ pcb \in Boards
    /\ LET mapped == map_to_grid(load_pads(fp), GRID_W, GRID_H, DEFAULT_PADDING)
       IN  /\ pad_map = BuildPadMap(mapped)
           /\ coord_to_pad = BuildCoordToPad(mapped)
    /\ occupied = [ c \in {} |-> 0 ]
    /\ net_index = 0
    /\ snake = << >>
    /\ direction = <<0, 0>>
    /\ trail = {}
    /\ apple_idx = 0
    /\ pc = "loop"
    /\ msg = ""
    /\ bak = NoFile
    /\ ret = NoCall
    /\ key = "none"
    /\ restarted = ""
    /\ call = << >>

\* Lines 168-177: a net none of whose pins is in pad_map is passed over.
LoopSkip ==
    /\ pc = "loop"
    /\ net_index < Len(nets)
    /\ Apples(net_index) = << >>
    /\ net_index' = net_index + 1
    /\ UNCHANGED <<static, occupied, snake, direction, trail, apple_idx, pc, msg,
                   pcb, bak, ret, key, restarted>>

\* pause_forever returning: the net is started on top of the trace.
LoopFatalReturns ==
    /\ pc = "loop"
    /\ net_index < Len(nets)
    /\ Apples(net_index) # << >>
    /\ StartCell(net_index) \in DOMAIN occupied
    /\ snake' = SeedCells(StartCell(net_index))
    /\ direction' = <<1, 0>>
    /\ trail' = Range(SeedCells(StartCell(net_index)))
    /\ apple_idx' = 1
    /\ restarted' = ""
    /\ pc' = "running"
    /\ msg' = "fatal"
    /\ UNCHANGED <<static, occupied, net_index, pcb, bak, ret, key>>

\* Lines 185-187: the start pad's cell is occupied; pause_forever never returns.
LoopFatal ==
    /\ pc = "loop"
    /\ net_index < Len(nets)
    /\ Apples(net_index) # << >>
    /\ StartCell(net_index) \in DOMAIN occupied
    /\ pc' = "fatal"
    /\ msg' = "fatal"
    /\ UNCHANGED <<static, occupied, net_index, snake, direction, trail, apple_idx,
                   pcb, bak, ret, key, restarted>>

\* Lines 179-198: the net starts with the seeded snake.
LoopInit ==
    /\ pc = "loop"
    /\ net_index < Len(nets)
    /\ Apples(net_index) # << >>
    /\ StartCell(net_index) \notin DOMAIN occupied
    /\ snake' = SeedCells(StartCell(net_index))
    /\ direction' = <<1, 0>>
    /\ trail' = InitTrail(SeedCells(StartCell(net_index)), {})
    /\ apple_idx' = 1
    /\ restarted' = ""
    /\ pc' = "running"
    /\ UNCHANGED <<static, occupied, net_index, msg, pcb, bak, ret, key>>

\* Lines 351-352: every net was handled; the last wait_for_key.
LoopDone ==
    /\ pc = "loop"
    /\ net_index >= Len(nets)
    /\ pc' = "finalwait"
    /\ msg' = "all_routed"
    /\ UNCHANGED <<static, occupied, net_index, snake, direction, trail, apple_idx,
                   pcb, bak, ret, key, restarted>>

FinalAck(k) ==
    /\ pc = "finalwait"
    /\ key' = k
    /\ pc' = "exit"
    /\ UNCHANGED <<static, occupied, net_index, snake, direction, trail, apple_idx,
                   msg, pcb, bak, ret, restarted>>


\* The trail marked occupied only when its segments have been written.
CompleteMarksIfPersisted(sn, tr, parser_fails) ==
    LET apples == Apples(net_index)
        net_idx == PadNet(apples[1])
        r == append_tracks(pcb, bak, fp, net_idx, OrderedGridPoints(sn, tr), parser_fails)
    IN  IF net_idx # None
          THEN /\ occupied' = IF r.ret.tag = "returned"
                                THEN MarkOccupied(occupied, tr, NetChar(net_index))
                                ELSE occupied
               /\ pcb' = r.pcb
               /\ bak' = r.bak
               /\ ret' = r.ret
               /\ msg' = IF r.ret.tag = "returned" THEN "written" ELSE "failed"
               /\ pc' = "ack"
          ELSE /\ pc' = "advance"
               /\ UNCHANGED <<occupied, pcb, bak, ret, msg>>

\* Lines 315-347, after the break: the trail is marked occupied and handed to
\* append_tracks; wait_for_key is entered only if the first pad has a net number.
Complete(sn, tr, parser_fails) ==
    LET apples == Apples(net_index)
        net_idx == PadNet(apples[1])
        r == append_tracks(pcb, bak, fp, net_idx, OrderedGridPoints(sn, tr), parser_fails)
    IN  /\ occupied' = MarkOccupied(occupied, tr, NetChar(net_index))
        /\ IF net_idx # None
             THEN /\ pcb' = r.pcb
                  /\ bak' = r.bak
                  /\ ret' = r.ret
                  /\ msg' = IF r.ret.tag = "returned" THEN "written" ELSE "failed"
                  /\ pc' = "ack"
             ELSE /\ pc' = "advance"
                  /\ UNCHANGED <<pcb, bak, ret, msg>>

\* The accepted moves for which an attempt is followed: MaxMoves on the boards
\* of Footprints, MaxWrapMoves on the board whose net is routed over the edge.
MoveLimit == IF fp \in Footprints THEN MaxMoves ELSE MaxWrapMoves

\* Lines 202-313: one tick of the routing loop with key k polled.  An attempt
\* is followed for MoveLimit accepted moves; the quit key is read at any length.
Tick(k, parser_fails) ==
    /\ pc = "running"
    /\ key' = k
    /\ IF IsQuit(k)
         THEN /\ pc' = "quit"
              /\ UNCHANGED <<static, occupied, net_index, snake, direction, trail,
                             apple_idx, msg, pcb, bak, ret, restarted>>
         ELSE
         LET apples == Apples(net_index)
             dir == NewDirection(k, direction)
             n == NextCell(snake[1], dir)
         IN  /\ Len(snake) < SEED_LEN + MoveLimit
             /\ direction' = dir
             /\ UNCHANGED <<static, net_index, restarted>>
             /\ IF n \in DOMAIN occupied
                  THEN /\ msg' = "collision_trace"
                       /\ pc' = "collision"
                       /\ UNCHANGED <<occupied, snake, trail, apple_idx, pcb, bak, ret>>
                ELSE IF HitsForeignPad(n, apples)
                  THEN /\ msg' = "collision_pad"
                       /\ pc' = "collision"
                       /\ UNCHANGED <<occupied, snake, trail, apple_idx, pcb, bak, ret>>
                ELSE /\ snake' = << n >> \o snake
                     /\ trail' = trail \cup { n }
                     /\ IF apple_idx < Len(apples)
                          THEN /\ apple_idx' = IF TargetHit(n, apples, apple_idx)
                                                 THEN apple_idx + 1 ELSE apple_idx
                               /\ msg' = ""
                               /\ pc' = "running"
                               /\ UNCHANGED <<occupied, pcb, bak, ret>>
                          ELSE /\ UNCHANGED apple_idx
                               /\ Complete(snake', trail', parser_fails)

\* Lines 231-239 and 248-255: the key that acknowledges a collision.
CollisionAck(k) ==
    /\ pc = "collision"
    /\ key' = k
    /\ IF IsQuit(k)
         THEN /\ pc' = "quit"
              /\ UNCHANGED <<snake, direction, trail, apple_idx, restarted>>
         ELSE /\ snake' = SeedCells(StartCell(net_index))
              /\ direction' = <<1, 0>>
              /\ trail' = InitTrail(SeedCells(StartCell(net_index)), trail)
              /\ apple_idx' = 1
              /\ restarted' = msg
              /\ pc' = "running"
    /\ UNCHANGED <<static, occupied, net_index, msg, pcb, bak, ret>>

\* wait_for_key of lines 345 and 347: any key continues.
CompleteAck(k) ==
    /\ pc = "ack"
    /\ key' = k
    /\ pc' = "advance"
    /\ UNCHANGED <<static, occupied, net_index, snake, direction, trail, apple_idx,
                   msg, pcb, bak, ret, restarted>>

\* Back to the loop head with net_index as it was.
AdvanceSameNet ==
    /\ pc = "advance"
    /\ pc' = "loop"
    /\ UNCHANGED <<static, occupied, net_index, snake, direction, trail, apple_idx,
                   msg, pcb, bak, ret, key, restarted>>

\* Line 349: net_index += 1, back to the loop head.
Advance ==
    /\ pc = "advance"
    /\ net_index' = net_index + 1
    /\ pc' = "loop"
    /\ UNCHANGED <<static, occupied, snake, direction, trail, apple_idx,
                   msg, pcb, bak, ret, key, restarted>>

Next ==
    \/ LoopSkip
    \/ LoopFatal
    \/ LoopInit
    \/ LoopDone
    \/ \E k \in Keys, parser_fails \in BOOLEAN : Tick(k, parser_fails)
    \/ \E k \in AckKeys : CollisionAck(k)
    \/ \E k \in AckKeys : CompleteAck(k)
    \/ Advance
    \/ \E k \in AckKeys : FinalAck(k)

Spec == Init /\ [][Next]_vars


(* run on a board whose first net has its two pins in the top left and the  *)
(* bottom left corner of the usable cells, (4,4) and (4,35): the short way  *)
(* from one to the other is up over the top edge of the grid.               *)

\* Z:1 and Z:3 are the net; Y:1 falls on the cell right of Z:1; Z:2 spans
\* the bounding box.
WrapFootprints ==
    { << Pad("Z:1", 0, 0, 1), Pad("Y:1", 4, 0, None), Pad("Z:3", 0, 124, 1),
         Pad("Z:2", 284, 124, None) >> }

\* The net over the edge, a net with no pin on the board, and the first net
\* the other way round; or the net with no pin on the board alone.
WrapNetLists ==
    { << <<"Z:1", "Z:3">>, <<"C:1", "C:2">>, <<"Z:3", "Z:1">> >>,
      << <<"C:1", "C:2">> >> }

InitWrap ==
    /\ fp \in WrapFootprints
    /\ nets \in WrapNetLists
    /\ pcb = << Tok("("), Atom("kicad_pcb"), Tok("nl"), Tok(")"), Tok("nl") >>
    /\ LET mapped == map_to_grid(load_pads(fp), GRID_W, GRID_H, DEFAULT_PADDING)
       IN  /\ pad_map = BuildPadMap(mapped)
           /\ coord_to_pad = BuildCoordToPad(mapped)
    /\ occupied = [ c \in {} |-> 0 ]
    /\ net_index = 0
    /\ snake = << >>
    /\ direction = <<0, 0>>
    /\ trail = {}
    /\ apple_idx = 0
    /\ pc = "loop"
    /\ msg = ""
    /\ bak = NoFile
    /\ ret = NoCall
    /\ key = "none"
    /\ restarted = ""
    /\ call = << >>

SpecWrap == InitWrap /\ [][Next]_vars


----------------------------------------------------------------------------
(* Single functions, each followed by a specification of its own.  The     *)
(* variables of run that a function does not touch stay as RunIdle sets    *)
(* them.                                                                   *)

runlocals == <<nets, pad_map, coord_to_pad, occupied, net_index, snake, direction,
               trail, apple_idx, pc, msg, key, restarted>>

RunIdle ==
    /\ nets = << >>
    /\ pad_map = << >>
    /\ coord_to_pad = << >>
    /\ occupied = << >>
    /\ net_index = 0
    /\ snake = << >>
    /\ direction = <<0, 0>>
    /\ trail = {}
    /\ apple_idx = 0
    /\ pc = "call"
    /\ msg = ""
    /\ key = "none"
    /\ restarted = ""

(* pcb_patcher.append_tracks called on its own, any number of times on the *)
(* same board file.                                                        *)

MaxPoints == 3
MaxSegments == 3

\* Board files as append_tracks may find them: those of run, and one with
\* blank lines before and after the final ")".
AppendBoards ==
    Boards \cup { << Tok("("), Atom("kicad_pcb"), Tok("nl"), Tok("nl"), Tok(")"),
                     Tok("nl"), Tok("nl") >> }

PointCells == { <<4, 4>>, <<40, 20>> }

\* ordered_grid_points: lists of up to MaxPoints cells.
PointLists == UNION { [ 1..n -> PointCells ] : n \in 0..MaxPoints }

SegCount(text) == Cardinality({ i \in 1..Len(text) : text[i][1] = "segment" })

InitAppend ==
    /\ RunIdle
    /\ fp = << Pad("Z:1", 0, 0, None), Pad("Z:2", 284, 124, None) >>
    /\ pcb \in AppendBoards
    /\ bak = NoFile
    /\ ret = NoCall
    /\ call = [ordered_grid_points |-> << >>, net_idx |-> 0]

AppendCall(points, net_idx, parser_fails) ==
    /\ SegCount(pcb) + Len(points) <= MaxSegments + 1
    /\ LET r == append_tracks(pcb, bak, fp, net_idx, points, parser_fails)
       IN  /\ pcb' = r.pcb
           /\ bak' = r.bak
           /\ ret' = r.ret
    /\ call' = [ordered_grid_points |-> points, net_idx |-> net_idx]
    /\ UNCHANGED <<fp, runlocals>>

NextAppend ==
    \E points \in PointLists, net_idx \in { 1 }, parser_fails \in BOOLEAN :
        AppendCall(points, net_idx, parser_fails)

SpecAppend == InitAppend /\ [][NextAppend]_vars


files == <<pcb, bak, ret>>

\* No board file is read or written.
FilesIdle ==
    /\ pcb = << >>
    /\ bak = NoFile
    /\ ret = NoCall

(* The forward map of snake_game (map_to_grid, as run calls it) followed by *)
(* the inverse map of pcb_patcher (grid_to_pcb), pad by pad.                *)

\* A board 71 mm by 31 mm: two pads in opposite corners and a third one in
\* between, on or off the points that the usable cells stand for.
MapXs == { 0, 5000, 100000, 355000, 600000, 705000, 710000 }
MapYs == { 0, 5000, 155000, 305000, 310000 }

MapFootprints ==
    { << Pad("Z:1", 0, 0, None), Pad("A:1", x, y, 1), Pad("Z:2", 710000, 310000, None) >> :
      <<x, y>> \in MapXs \X MapYs }

InitMap ==
    /\ RunIdle
    /\ FilesIdle
    /\ fp \in MapFootprints
    /\ call = [pad |-> 0, p |-> <<0, 0>>, cell |-> <<0, 0>>, back |-> <<0, 0>>]

\* Pad i of the footprint data: its position, its cell, and the cell's position.
RoundTrip(i) ==
    /\ call.pad = 0
    /\ LET mapped == map_to_grid(load_pads(fp), GRID_W, GRID_H, DEFAULT_PADDING)
           bounds == compute_bounds_from_footprints(fp)
       IN  call' = [ pad  |-> i,
                     p    |-> <<fp[i].x, fp[i].y>>,
                     cell |-> <<mapped[i].gx, mapped[i].gy>>,
                     back |-> grid_to_pcb(mapped[i].gx, mapped[i].gy, bounds) ]
    /\ UNCHANGED <<fp, runlocals, files>>

NextMap == \E i \in 1..Len(fp) : RoundTrip(i)

SpecMap == InitMap /\ [][NextMap]_vars


(* parse_sch.unionfind, edge by edge and then node by node.                *)

MaxEdges == 3

\* The nodes: wire ends, pin positions, label positions.
UFNodes == { 1, 2, 3, 4 }

\* The wires: lists of up to MaxEdges segments between two different nodes.
EdgeLists ==
    UNION { [ 1..n -> { e \in UFNodes \X UFNodes : e[1] # e[2] } ] : n \in 0..MaxEdges }

\* find(x): the parent map it leaves, every node of x's path hung on the root.
\* The value it returns is this map at x.
RECURSIVE find(_, _)
find(parent, x) ==
    IF parent[x] # x
      THEN LET p1 == find(parent, parent[x])
           IN  [ p1 EXCEPT ![x] = p1[parent[x]] ]
      ELSE parent

\* A union that hangs b itself, not its root, on the root of a.
unionLinksNode(parent, a, b) ==
    LET p1 == find(parent, a)
        ra == p1[a]
        p2 == find(p1, b)
        rb == p2[b]
    IN  IF ra # rb THEN [ p2 EXCEPT ![b] = ra ] ELSE p2

\* union(a,b): the parent map it leaves.
union(parent, a, b) ==
    LET p1 == find(parent, a)
        ra == p1[a]
        p2 == find(p1, b)
        rb == p2[b]
    IN  IF ra # rb THEN [ p2 EXCEPT ![rb] = ra ] ELSE p2

InitUF ==
    /\ RunIdle
    /\ FilesIdle
    /\ fp = << >>
    /\ \E edges \in EdgeLists :
         call = [ edges  |-> edges,
                  parent |-> [ n \in UFNodes |-> n ],
                  i      |-> 0,
                  j      |-> 0,
                  groups |-> << >> ]

\* for a,b in edges: union(a,b) -- one edge.
UnionStep ==
    /\ call.i < Len(call.edges)
    /\ LET e == call.edges[call.i + 1]
       IN  call' = [ call EXCEPT !.parent = union(call.parent, e[1], e[2]),
                                 !.i = call.i + 1 ]
    /\ UNCHANGED <<fp, runlocals, files>>

\* groups.setdefault(root,[]).append(n): groups is the dict as the list of its
\* items in insertion order.
AddToGroup(groups, root, n) ==
    IF \E k \in 1..Len(groups) : groups[k].root = root
      THEN [ k \in 1..Len(groups) |->
               IF groups[k].root = root
                 THEN [ groups[k] EXCEPT !.coords = Append(@, n) ]
                 ELSE groups[k] ]
      ELSE Append(groups, [root |-> root, coords |-> << n >>])

\* for n in nodes: root=find(n); groups.setdefault(root,[]).append(n) -- one
\* node, the nodes taken in ascending order.
GroupStep ==
    /\ call.i = Len(call.edges)
    /\ call.j < Cardinality(UFNodes)
    /\ LET n == call.j + 1
           p1 == find(call.parent, n)
       IN  call' = [ call EXCEPT !.parent = p1,
                                 !.j = n,
                                 !.groups = AddToGroup(call.groups, p1[n], n) ]
    /\ UNCHANGED <<fp, runlocals, files>>

NextUF == UnionStep \/ GroupStep

SpecUF == InitUF /\ [][NextUF]_vars


(* parse_sch.parse_kicad from line 117 on: the nodes, their groups, and the *)
(* loop that names and emits the nets, one group at a time.                 *)

\* segs: some wirings of the four nodes.
SchSegs ==
    { << >>,
      << <<1, 2>> >>,
      << <<1, 2>>, <<3, 4>> >>,
      << <<2, 1>>, <<4, 3>> >>,
      << <<1, 2>>, <<2, 3>> >>,
      << <<1, 2>>, <<3, 2>>, <<3, 4>> >> }

\* pin_positions[(px,py)] = f"{ref}:{num}": the pin that is at node n.
PinName(n) == "U" \o ToString(n) \o ":1"

\* pin_pos: any of the nodes holds a pin.
PinPositions == { [ n \in S |-> PinName(n) ] : S \in SUBSET UFNodes }

\* The texts of labels; one reads like a generated name.
LabelTexts == { "VCC", "N$1" }

\* labels: any of the nodes holds a label.
LabelMaps == UNION { [ S -> LabelTexts ] : S \in SUBSET UFNodes }

\* nodes: wire ends, pin positions and label positions.
SchNodes(segs, pin_pos, labels) ==
    { e[1] : e \in Range(segs) } \cup { e[2] : e \in Range(segs) }
        \cup DOMAIN pin_pos \cup DOMAIN labels

RECURSIVE UnionAll(_, _)
UnionAll(parent, edges) ==
    IF edges = << >> THEN parent
    ELSE UnionAll(union(parent, edges[1][1], edges[1][2]), Tail(edges))

RECURSIVE GroupAll(_, _, _)
GroupAll(parent, groups, todo) ==
    IF todo = {} THEN groups
    ELSE LET n == SetMin(todo)
             p1 == find(parent, n)
         IN  GroupAll(p1, AddToGroup(groups, p1[n], n), todo \ { n })

\* unionfind(nodes, edges): the groups, in the order of the dict.
unionfind(nodes, edges) ==
    GroupAll(UnionAll([ n \in nodes |-> n ], edges), << >>, nodes)

\* A generated name that does not count.
AutoNameFirst(idx) == "N$1"

\* f"N${idx}"
AutoName(idx) == "N$" \o ToString(idx)

\* pins=[pin_pos[c] for c in coords if c in pin_pos]
PinsOf(coords, pin_pos) ==
    LET IsPin(c) == c \in DOMAIN pin_pos
        at == SelectSeq(coords, IsPin)
    IN  [ k \in 1..Len(at) |-> pin_pos[at[k]] ]

\* for c in coords: if c in labels: name=labels[c] -- "" where the source
\* has None; `not name` holds of both.
RECURSIVE LabelName(_, _, _)
LabelName(coords, labels, name) ==
    IF coords = << >> THEN name
    ELSE LabelName(Tail(coords), labels,
                   IF coords[1] \in DOMAIN labels THEN labels[coords[1]] ELSE name)

\* nets[name]=pins
SetNet(d, name, pins) ==
    [ n \in DOMAIN d \cup { name } |-> IF n = name THEN pins ELSE d[n] ]

InitNets ==
    /\ RunIdle
    /\ FilesIdle
    /\ fp = << >>
    /\ \E segs \in SchSegs, pin_pos \in PinPositions, labels \in LabelMaps :
         call = [ segs    |-> segs,
                  pin_pos |-> pin_pos,
                  labels  |-> labels,
                  groups  |-> unionfind(SchNodes(segs, pin_pos, labels), segs),
                  g       |-> 0,
                  nets    |-> << >>,
                  idx     |-> 1,
                  named   |-> << >> ]

\* Lines 126-134 for one group; named is the history of the names given.
EmitStep ==
    /\ call.g < Len(call.groups)
    /\ LET coords == call.groups[call.g + 1].coords
           pins == PinsOf(coords, call.pin_pos)
           label == LabelName(coords, call.labels, "")
           name == IF label = "" THEN AutoName(call.idx) ELSE label
       IN  IF Len(pins) >= 2
             THEN call' = [ call EXCEPT
                              !.g = call.g + 1,
                              !.idx = IF label = "" THEN call.idx + 1 ELSE call.idx,
                              !.nets = SetNet(call.nets, name, pins),
                              !.named = Append(@, [name |-> name, g |-> call.g + 1,
                                                    auto |-> label = ""]) ]
             ELSE call' = [ call EXCEPT !.g = call.g + 1 ]
    /\ UNCHANGED <<fp, runlocals, files>>

NextNets == EmitStep

SpecNets == InitNets /\ [][NextNets]_vars


(* parse_pcb.parse_pcb on one footprint node, child by child.  Positions    *)
(* of the board file are integers counting 1e-5 mm here, a digit more than  *)
(* the four decimals the pad positions are rounded to.                      *)

FinePerUnit == 10

\* round(v, 4) of a value counted in 1e-5 mm, in 1e-4 mm.  No input puts a sum
\* half way between two results.
Round4(v) == RoundHalfEven(v, FinePerUnit)

Child(head, name, x, y, rot, net) ==
    [head |-> head, name |-> name, x |-> x, y |-> y, rot |-> rot, net |-> net]

\* The children of a footprint: its Reference property, its origin
\* (at x y rot), and two pads (pad name ... (at x y [rot]) (net N)), the
\* second one rotated.
FootprintChildren ==
    { { Child("property", "R1", 0, 0, 0, None),
        Child("at", "", o[1], o[2], rot, None),
        Child("pad", "1", -127003, 0, 0, 1),
        Child("pad", "2", 127003, 50008, 90, 2) } :
      <<o, rot>> \in { <<1000000, 500000>>, <<2540012, 1270004>> } \X { 0, 90 } }

\* The lists of all members of S, in every order.
RECURSIVE Orders(_)
Orders(S) ==
    IF S = {} THEN { << >> }
    ELSE UNION { { << e >> \o t : t \in Orders(S \ { e }) } : e \in S }

InitPcb ==
    /\ RunIdle
    /\ FilesIdle
    /\ fp = << >>
    /\ \E cs \in FootprintChildren : \E children \in Orders(cs) :
         call = [ children   |-> children,
                  k          |-> 0,
                  ref        |-> "",
                  at         |-> <<0, 0, 0>>,
                  pads       |-> << >>,
                  footprints |-> << >> ]

\* Lines 24-25: the Reference property.
WalkProperty ==
    /\ call.k < Len(call.children)
    /\ call.children[call.k + 1].head = "property"
    /\ call' = [ call EXCEPT !.k = call.k + 1,
                             !.ref = call.children[call.k + 1].name ]
    /\ UNCHANGED <<fp, runlocals, files>>

\* Lines 26-33: the footprint origin.
WalkAt ==
    /\ call.k < Len(call.children)
    /\ call.children[call.k + 1].head = "at"
    /\ LET c == call.children[call.k + 1]
       IN  call' = [ call EXCEPT !.k = call.k + 1, !.at = << c.x, c.y, c.rot >> ]
    /\ UNCHANGED <<fp, runlocals, files>>

\* pads[name] = { 'at': [ax, ay], 'net': net, ... } with at as it is now.
PadEntry(at, c) ==
    [ at |-> << Round4(at[1] + c.x), Round4(at[2] + c.y) >>, net |-> c.net ]

\* Lines 36-74: a pad.
WalkPad ==
    /\ call.k < Len(call.children)
    /\ call.children[call.k + 1].head = "pad"
    /\ LET c == call.children[call.k + 1]
       IN  call' = [ call EXCEPT
                       !.k = call.k + 1,
                       !.pads = [ n \in DOMAIN call.pads \cup { c.name } |->
                                    IF n = c.name THEN PadEntry(call.at, c)
                                    ELSE call.pads[n] ] ]
    /\ UNCHANGED <<fp, runlocals, files>>

\* Lines 75-76: footprints[ref] = { 'lib': lib, 'at': list(at), 'pads': pads }
FootprintDone ==
    /\ call.k = Len(call.children)
    /\ call.ref # ""
    /\ call.footprints = << >>
    /\ call' = [ call EXCEPT !.footprints =
                   [ r \in { call.ref } |-> [at |-> call.at, pads |-> call.pads] ] ]
    /\ UNCHANGED <<fp, runlocals, files>>

NextPcb == WalkProperty \/ WalkAt \/ WalkPad \/ FootprintDone

SpecPcb == InitPcb /\ [][NextPcb]_vars


----------------------------------------------------------------------------
(* Properties *)

\* The step on which a net leaves the routing loop by its break (COMPLETE).
CompleteStep == pc = "running" /\ pc' \in { "ack", "advance" }

\* The step on which a move is accepted: a new head is pushed on the deque.
AcceptStep == pc = "running" /\ Len(snake') = Len(snake) + 1

\* The cells at which some pad other than the pins of net i is mapped.
ForeignPadCells(i) ==
    { pad_map[p] : p \in { q \in DOMAIN pad_map : q \notin Range(Apples(i)) } }

Reverse(s) == [ i \in 1..Len(s) |-> s[Len(s) + 1 - i] ]

\* path passes the cells in their order, each at a later step than the one before.
RECURSIVE Visits(_, _)
Visits(path, cells) ==
    IF Len(cells) = 0 THEN TRUE
    ELSE IF Len(path) = 0 THEN FALSE
    ELSE IF path[1] = cells[1] THEN Visits(Tail(path), Tail(cells))
    ELSE Visits(Tail(path), cells)

HasSegment(text) == \E i \in 1..Len(text) : text[i][1] = "segment"

\* C1: a cell that is in occupied keeps its owning net's marker for ever: no
\* later net replaces it, be it by an accepted move or by its seeded trail.
C1_OwnerNeverReplaced ==
    [][ \A c \in DOMAIN occupied :
            c \in DOMAIN occupied' /\ occupied'[c] = occupied[c] ]_vars

\* C2: a net with two or more pins is no longer RUNNING once the head has
\* reached its final pin: while it is RUNNING the target pointer still
\* designates a pin of the net.
C2_CompleteOnFinalPinTick ==
    (pc = "running" /\ Len(Apples(net_index)) >= 2)
        => apple_idx < Len(Apples(net_index))

C4_NoForeignPadEntered ==
    [][ AcceptStep => snake'[1] \notin ForeignPadCells(net_index) ]_vars

\* C5: within an attempt the target pointer never decreases and advances by
\* exactly one only on a tick whose accepted move enters the cell of the pin
\* it designates; and a net that completes has every mapped pin's cell in its
\* committed trail, the head having passed them in the order of the pin list.
C5_PinsVisitedInOrder ==
    [][ /\ ( pc = "running" /\ pc' = "running" )
           => ( /\ apple_idx' \in { apple_idx, apple_idx + 1 }
                /\ apple_idx' = apple_idx + 1
                   => ( /\ AcceptStep
                        /\ apple_idx < Len(Apples(net_index))
                        /\ snake'[1] = pad_map[Apples(net_index)[apple_idx + 1]] ) )
        /\ CompleteStep
           => ( /\ apple_idx' = apple_idx
                /\ \A i \in 1..Len(Apples(net_index)) :
                      /\ pad_map[Apples(net_index)[i]] \in trail'
                      /\ pad_map[Apples(net_index)[i]] \in DOMAIN occupied'
                      /\ occupied'[pad_map[Apples(net_index)[i]]] = NetChar(net_index)
                /\ Visits(Reverse(snake'),
                          [ i \in 1..Len(Apples(net_index)) |->
                              pad_map[Apples(net_index)[i]] ]) )
      ]_vars

\* C5 witness: a net of three mapped pins has completed.
C5_Witness == pc = "ack" /\ Len(Apples(net_index)) = 3

\* C6: a net whose start pad's cell is occupied takes the session to
\* FATAL_COLLISION, and nothing changes from then on.
C6_FatalCollisionIsFinal ==
    [][ /\ ( /\ pc = "loop"
             /\ net_index < Len(nets)
             /\ Apples(net_index) # << >>
             /\ StartCell(net_index) \in DOMAIN occupied )
           => ( pc' = "fatal" /\ UNCHANGED <<occupied, net_index, pcb, bak, snake, trail>> )
        /\ pc = "fatal" => UNCHANGED vars
      ]_vars

\* C6 witness: the session is in FATAL_COLLISION with an earlier net routed.
C6_Witness == pc = "fatal" /\ net_index >= 1 /\ DOMAIN occupied # {}

\* C7 as stated: a quit key at the tick poll, at the collision wait or at the
\* wait after COMPLETE aborts the session.
C7_QuitAbortsAtEveryWait ==
    [][ ( pc \in { "running", "collision", "ack" } /\ key' = "q" ) => pc' = "quit" ]_vars

\* C7 amended: a quit key at the tick poll or at the collision wait aborts the
\* session, and nothing changes after that; at the wait after COMPLETE the
\* quit key, like any key, goes on to the next net.
C7_QuitAbortsRunningAndCollision ==
    [][ /\ ( pc \in { "running", "collision" } /\ key' = "q" )
           => ( /\ pc' = "quit"
                /\ UNCHANGED <<occupied, net_index, snake, trail, apple_idx, pcb, bak>> )
        /\ pc = "quit" => UNCHANGED vars
        /\ ( pc = "ack" /\ key' = "q" ) => pc' = "advance"
      ]_vars

\* C7 witness: the session was quit at a collision wait, an earlier net persisted.
C7_Witness ==
    pc = "quit" /\ key = "q" /\ msg = "collision_trace" /\ HasSegment(pcb)

\* C8: line 349 (the next net) is reached only from the wait for a key.
C8_AckAfterEveryComplete ==
    [][ ( pc' = "advance" /\ pc # "advance" ) => pc = "ack" ]_vars

\* C9: a backup that exists is never overwritten.
C9_BackupKeptOnceMade ==
    [][ bak # NoFile => bak' = bak ]_vars

\* C10: when the re-parse of the written text fails, the board file is what
\* it was before the call and the caller is told of the failure.
C10_ParseFailureRestores ==
    [][ ( CompleteStep /\ pc' = "ack" /\ ret'.tag = "raised_parse" )
           => ( pcb' = pcb /\ msg' = "failed" /\ ret'.n = 0 ) ]_vars

\* C10 witness: the re-parse failed for a net routed after one whose segments
\* are in the board file.
C10_Witness ==
    pc = "ack" /\ ret.tag = "raised_parse" /\ HasSegment(pcb) /\ net_index >= 1


\* The position of the last ")" of a text, and of the last token before
\* position i that is not whitespace (0 if there is none).
LastClose(text) == SetMax({ i \in 1..Len(text) : text[i] = Tok(")") })
LastInkBefore(text, i) == SetMax({ 0 } \cup { j \in 1..(i - 1) : ~IsSpace(text[j]) })

\* C11: a call of append_tracks that returns on a list of n points returns
\* max(0, n-1); for n < 2 the board file is left as it was; for n >= 2 the new
\* board file is the old one up to the last token before its final ")"
\* (whitespace apart), then one segment record per adjacent pair of points in
\* list order, each on a line of its own, then the final ")".
C11_AppendAddsOnePerPair ==
    [][ ret'.tag = "returned" =>
          LET points == call'.ordered_grid_points
              n == Len(points)
              k == IF n >= 2 THEN n - 1 ELSE 0
              bounds == compute_bounds_from_footprints(fp)
              keep == LastInkBefore(pcb, LastClose(pcb))
              P(i) == grid_to_pcb(points[i][1], points[i][2], bounds)
          IN  /\ ret'.n = k
              /\ k = 0 => pcb' = pcb
              /\ k > 0 =>
                   /\ \A j \in (keep + 1)..Len(pcb) : IsSpace(pcb[j]) \/ j = LastClose(pcb)
                   /\ Len(pcb') = keep + 2 * k + 3
                   /\ SubSeq(pcb', 1, keep) = SubSeq(pcb, 1, keep)
                   /\ pcb'[keep + 1] = Tok("nl")
                   /\ \A i \in 1..k :
                        /\ pcb'[keep + 2 * i] =
                             << "segment", P(i)[1], P(i)[2], P(i + 1)[1], P(i + 1)[2],
                                call'.net_idx >>
                        /\ pcb'[keep + 2 * i + 1] = Tok("nl")
                   /\ pcb'[keep + 2 * k + 2] = Tok(")")
                   /\ pcb'[keep + 2 * k + 3] = Tok("nl")
                   /\ SegCount(pcb') = SegCount(pcb) + k
      ]_vars

\* C11 witness: a list of three points was appended to a board file that held
\* segments already.
C11_Witness ==
    /\ pc = "call"
    /\ ret = Returned(2)
    /\ Len(call.ordered_grid_points) = 3
    /\ SegCount(pcb) >= 3


\* C12: once a net has been committed, the grid width, the grid height, the
\* frame padding and the interior padding that run gave to map_to_grid are
\* those with which pcb_patcher maps the cells back.
C12_SameGridParameters ==
    ret.tag = "returned"
        => ( /\ GRID_W = P_GRID_W
             /\ GRID_H = P_GRID_H
             /\ DEFAULT_PADDING = PADDING
             /\ MAP_PADDING = P_MAP_PADDING )

Abs(n) == IF n < 0 THEN -n ELSE n

\* C13: the position that grid_to_pcb gives for the cell that map_to_grid gave
\* a pad is, on each axis, no further from the pad than the real-world size
\* of one grid cell (the extent of the bounding box over the steps of the
\* coarser of the two grids).
C13_RoundTripWithinOneCell ==
    call.pad # 0
        => LET bounds == compute_bounds_from_footprints(fp)
               stepsx == Min2(bounds.gw, Max2(1, GRID_W - DEFAULT_PADDING * 2 - MAP_PADDING)) - 1
               stepsy == Min2(bounds.gh, Max2(1, GRID_H - DEFAULT_PADDING * 2 - MAP_PADDING)) - 1
           IN  /\ Abs(call.back[1] - call.p[1]) * stepsx <= bounds.maxx - bounds.minx
               /\ Abs(call.back[2] - call.p[2]) * stepsy <= bounds.maxy - bounds.miny


\* The root of x: the end of its chain of parents.
RECURSIVE Root(_, _)
Root(parent, x) == IF parent[x] = x THEN x ELSE Root(parent, parent[x])

\* The nodes that a path of edges joins to a node of S.
RECURSIVE Joined(_, _)
Joined(S, edges) ==
    LET T == S \cup { e[2] : e \in { f \in Range(edges) : f[1] \in S } }
                \cup { e[1] : e \in { f \in Range(edges) : f[2] \in S } }
    IN  IF T = S THEN S ELSE Joined(T, edges)

\* C14: the groups unionfind returns are a partition of the nodes in which two
\* nodes share a group exactly when a path of edges joins them; and two nodes
\* that have the same root keep having the same root over every later union
\* and every later path-compressing find.
C14_GroupsAreComponents ==
    /\ [] ( call.j = Cardinality(UFNodes)
              => /\ \A n \in UFNodes :
                      Cardinality({ <<g, k>> \in (1..Len(call.groups)) \X UFNodes :
                                      /\ k <= Len(call.groups[g].coords)
                                      /\ call.groups[g].coords[k] = n }) = 1
                 /\ \A g \in 1..Len(call.groups) : call.groups[g].coords # << >>
                 /\ \A a, b \in UFNodes :
                      (\E g \in 1..Len(call.groups) :
                          /\ a \in Range(call.groups[g].coords)
                          /\ b \in Range(call.groups[g].coords))
                        <=> b \in Joined({ a }, call.edges) )
    /\ [][ \A a, b \in UFNodes :
             Root(call.parent, a) = Root(call.parent, b)
                => Root(call'.parent, a) = Root(call'.parent, b) ]_vars

\* C14 witness: three edges gave two groups, one of them holding a node whose
\* parent is a root that no edge joins to it directly.
C14_Witness ==
    /\ call.j = Cardinality(UFNodes)
    /\ Len(call.edges) = MaxEdges
    /\ Len(call.groups) = 2
    /\ \E n \in UFNodes :
         /\ call.parent[n] # n
         /\ <<n, call.parent[n]>> \notin Range(call.edges)
         /\ <<call.parent[n], n>> \notin Range(call.edges)


\* The groups with two or more pin nodes.
NetGroups ==
    { g \in 1..Len(call.groups) : Len(PinsOf(call.groups[g].coords, call.pin_pos)) >= 2 }

\* C15: when parse_kicad has gone through the groups, the nets it emits are,
\* one for one, the groups that have two or more pin nodes, each net holding
\* exactly the pins of its group.
C15_OneNetPerComponent ==
    call.g = Len(call.groups)
        => /\ Cardinality(DOMAIN call.nets) = Cardinality(NetGroups)
           /\ \A g \in NetGroups :
                \E name \in DOMAIN call.nets :
                    call.nets[name] = PinsOf(call.groups[g].coords, call.pin_pos)
           /\ \A name \in DOMAIN call.nets :
                \E g \in NetGroups :
                    call.nets[name] = PinsOf(call.groups[g].coords, call.pin_pos)

\* C16: a name given to a group that holds a label is the text of a label of
\* that group; the other names given are N$1, N$2, ... in the order given, so
\* no two of them are the same; and every emitted net has a name so given.
C16_LabelOrCountedName ==
    /\ \A k \in 1..Len(call.named) :
         LET coords == call.groups[call.named[k].g].coords
             held == { call.labels[c] : c \in Range(coords) \cap DOMAIN call.labels }
         IN  /\ held # {} => call.named[k].name \in held
             /\ held = {} =>
                  /\ call.named[k].auto
                  /\ call.named[k].name =
                       AutoName(Cardinality({ h \in 1..k : call.named[h].auto }))
    /\ \A h, k \in 1..Len(call.named) :
         (h # k /\ call.named[h].auto /\ call.named[k].auto)
            => call.named[h].name # call.named[k].name
    /\ call.idx = 1 + Cardinality({ k \in 1..Len(call.named) : call.named[k].auto })
    /\ \A name \in DOMAIN call.nets :
         \E k \in 1..Len(call.named) :
            /\ call.named[k].name = name
            /\ call.nets[name] = PinsOf(call.groups[call.named[k].g].coords, call.pin_pos)

\* C16 witness: two groups without a label were given generated names.
C16_Witness ==
    /\ pc = "call"
    /\ call.g = Len(call.groups)
    /\ Cardinality({ k \in 1..Len(call.named) : call.named[k].auto }) = 2


\* The segment records of a board text, in their order.
SegmentsOf(text) ==
    LET IsSegment(t) == t[1] = "segment" IN SelectSeq(text, IsSegment)

\* C17: the segment records that are in the board file stay in it, unaltered
\* and in their place, over every step of the session; only a net's
\* successful persistence changes the records at all, by adding its own.
C17_WrittenSegmentsStay ==
    [][ /\ Len(SegmentsOf(pcb')) >= Len(SegmentsOf(pcb))
        /\ SubSeq(SegmentsOf(pcb'), 1, Len(SegmentsOf(pcb))) = SegmentsOf(pcb)
        /\ ( ~CompleteStep \/ ret'.tag # "returned" \/ pc' # "ack" )
              => SegmentsOf(pcb') = SegmentsOf(pcb)
      ]_vars

\* C17 witness: the persistence of a later net has failed at the re-parse and
\* the session has gone on, the earlier net's segments in the board file.
C17_Witness ==
    /\ pc = "advance"
    /\ net_index >= 1
    /\ ret.tag = "raised_parse"
    /\ Len(SegmentsOf(pcb)) >= SEED_LEN

\* C18: net_index only ever goes up by one, and does so only from line 349
\* after the net's COMPLETE or at the loop head for a net with no pin in
\* pad_map; line 349 is reached only from a COMPLETE; and the routing that
\* starts at the loop head is that of net net_index.
C18_NetsInIndexOrder ==
    [][ /\ net_index' \in { net_index, net_index + 1 }
        /\ net_index' = net_index + 1
             => ( pc = "advance" \/ ( pc = "loop" /\ Apples(net_index) = << >> ) )
        /\ pc = "advance" => ( net_index' = net_index + 1 /\ pc' = "loop" )
        /\ ( pc' = "advance" /\ pc # "advance" ) => ( CompleteStep \/ pc = "ack" )
        /\ ( pc' = "ack" /\ pc # "ack" ) => CompleteStep
        /\ ( pc' = "running" /\ pc # "running" )
             => /\ pc \in { "loop", "collision" }
                /\ net_index' = net_index
                /\ Apples(net_index) # << >>
                /\ snake' = SeedCells(StartCell(net_index))
      ]_vars

\* C18 witness: the third net is being routed, the first completed and the
\* second skipped.
C18_Witness ==
    /\ pc = "running"
    /\ net_index = 2
    /\ Apples(1) = << >>
    /\ \E c \in DOMAIN occupied : occupied[c] = NetChar(0)

\* C19: occupied never loses a cell; it changes only on the step of a net's
\* COMPLETE, which gives every cell of the net's trail (seed cells and
\* accepted moves) the net's marker and leaves the other cells as they were;
\* ticks that do not complete, restarts and quits leave it unchanged.
C19_OccupiedGrowsAtComplete ==
    [][ /\ DOMAIN occupied \subseteq DOMAIN occupied'
        /\ occupied' # occupied => CompleteStep
        /\ CompleteStep
             => /\ trail' = Range(snake')
                /\ \A c \in trail' :
                     c \in DOMAIN occupied' /\ occupied'[c] = NetChar(net_index)
                /\ \A c \in DOMAIN occupied' \ trail' :
                     c \in DOMAIN occupied /\ occupied'[c] = occupied[c]
        /\ ( pc = "collision" \/ pc' \in { "quit", "collision", "running" } )
             => occupied' = occupied
      ]_vars

\* C19 witness: a second net has completed, the cells of both in occupied.
C19_Witness ==
    /\ pc = "ack"
    /\ net_index >= 1
    /\ \E c, e \in DOMAIN occupied :
         occupied[c] = NetChar(net_index) /\ occupied[e] # NetChar(net_index)

Opposite(dir) == << -dir[1], -dir[2] >>

\* C20: on a tick that does not quit, the heading stays when the key is the
\* opposite of it or no direction key, and becomes the key's direction
\* otherwise; an accepted move puts the head one cell on in that heading
\* (around the edge of the grid), which is never the cell it came from.
C20_ReversalIgnored ==
    [][ ( pc = "running" /\ key' # "q" )
          => /\ ( key' \in DOMAIN KEY_MAP /\ KEY_MAP[key'] = Opposite(direction) )
                  => direction' = direction
             /\ ( key' \in DOMAIN KEY_MAP /\ KEY_MAP[key'] # Opposite(direction) )
                  => direction' = KEY_MAP[key']
             /\ key' \notin DOMAIN KEY_MAP => direction' = direction
             /\ AcceptStep
                  => /\ Tail(snake') = snake
                     /\ snake'[1] = << (snake[1][1] + direction'[1]) % GRID_W,
                                       (snake[1][2] + direction'[2]) % GRID_H >>
                     /\ snake'[1] # snake[2]
      ]_vars

\* C20 witness: the key opposite to the heading was polled on a tick and the
\* head moved on in the heading it had.
C20_Witness ==
    /\ pc = "running"
    /\ Len(snake) > SEED_LEN
    /\ key \in DOMAIN KEY_MAP
    /\ KEY_MAP[key] = Opposite(direction)


\* C21: every pad that parse_pcb has recorded for a footprint is at the
\* footprint's origin plus the pad's own offset (rounded to four decimals),
\* no rotation applied, in whatever order the origin and the pads come among
\* the footprint's children.
C21_PadAtOriginPlusOffset ==
    \A r \in DOMAIN call.footprints :
        LET origin == CHOOSE c \in Range(call.children) : c.head = "at"
        IN  \A c \in Range(call.children) :
                c.head = "pad"
                  => /\ c.name \in DOMAIN call.footprints[r].pads
                     /\ call.footprints[r].pads[c.name].at =
                          << Round4(origin.x + c.x), Round4(origin.y + c.y) >>


InGrid(c) == 0 <= c[1] /\ c[1] < GRID_W /\ 0 <= c[2] /\ c[2] < GRID_H

\* C22: every cell of the snake (seed cells and head), of the trail and of
\* occupied is inside the grid, and an accepted move off an edge puts the
\* head on the opposite edge of the same row or column.
C22_CellsInGridAndWrap ==
    /\ [] ( \A c \in Range(snake) \cup trail \cup DOMAIN occupied : InGrid(c) )
    /\ [][ AcceptStep
             => /\ ( snake[1][2] = 0 /\ direction' = <<0, -1>> )
                     => snake'[1] = << snake[1][1], GRID_H - 1 >>
                /\ ( snake[1][2] = GRID_H - 1 /\ direction' = <<0, 1>> )
                     => snake'[1] = << snake[1][1], 0 >>
                /\ ( snake[1][1] = 0 /\ direction' = <<-1, 0>> )
                     => snake'[1] = << GRID_W - 1, snake[1][2] >>
                /\ ( snake[1][1] = GRID_W - 1 /\ direction' = <<1, 0>> )
                     => snake'[1] = << 0, snake[1][2] >>
      ]_vars

\* C22 witness: a net that went up over the top edge has completed, and the
\* cells of the bottom row it came out on are in occupied.
C22_Witness ==
    /\ pc = "ack"
    /\ \E c \in DOMAIN occupied : c[2] = GRID_H - 1
    /\ \E c \in DOMAIN occupied : c[2] = 0


\* Two cells next to each other in a row or a column of the grid, the first
\* and the last cell of a row or column included.
Neighbours(a, b) ==
    \/ a[1] = b[1] /\ (a[2] - b[2]) % GRID_H \in { 1, GRID_H - 1 }
    \/ a[2] = b[2] /\ (a[1] - b[1]) % GRID_W \in { 1, GRID_W - 1 }

\* C23: when a completed net's points have been persisted, the ordered point
\* list covers the net's trail, its consecutive points are neighbouring
\* cells, and every segment written for it joins two positions no further
\* apart on either axis than the real-world size of one cell (of the grid
\* that pcb_patcher maps back with, a rounding unit allowed), moves around
\* an edge of the grid and through the cells of the frame included.
C23_SegmentsJoinNeighbours ==
    ( pc = "ack" /\ ret.tag = "returned" )
        => LET points == OrderedGridPoints(snake, trail)
               segs == SegmentsOf(pcb)
               written == SubSeq(segs, Len(segs) - ret.n + 1, Len(segs))
               bounds == compute_bounds_from_footprints(fp)
           IN  /\ trail \subseteq Range(points)
               /\ \A i \in 1..(Len(points) - 1) : Neighbours(points[i], points[i + 1])
               /\ \A i \in 1..Len(written) :
                    /\ (Abs(written[i][4] - written[i][2]) - 1) * Max2(1, bounds.gw - 1)
                          <= bounds.maxx - bounds.minx
                    /\ (Abs(written[i][5] - written[i][3]) - 1) * Max2(1, bounds.gh - 1)
                          <= bounds.maxy - bounds.miny


\* The cells of the completing net's trail that carry its marker.
MarkedCells == { c \in trail' : c \in DOMAIN occupied' /\ occupied'[c] = NetChar(net_index) }

\* C24 as stated: on the COMPLETE step of a net its trail cells are marked in
\* occupied only if its segments have gone into the board file.
C24_OccupiedOnlyIfPersisted ==
    [][ ( CompleteStep /\ MarkedCells # {} )
          => /\ pc' = "ack"
             /\ ret'.tag = "returned"
             /\ Len(SegmentsOf(pcb')) > Len(SegmentsOf(pcb)) ]_vars

\* C24 amended: on the COMPLETE step of a net every cell of its trail is
\* marked in occupied, whatever becomes of its segments: they are added to
\* the board file when append_tracks returns, and the board file is as it
\* was when append_tracks raises or is not called for want of a net number.
C24_OccupiedWhetherPersistedOrNot ==
    [][ CompleteStep
          => /\ MarkedCells = trail'
             /\ trail' # {}
             /\ ( pc' = "ack" /\ ret'.tag = "returned" )
                  => Len(SegmentsOf(pcb')) = Len(SegmentsOf(pcb)) + Len(snake') - 1
             /\ ( pc' = "ack" /\ ret'.tag # "returned" )
                  => ( pcb' = pcb /\ msg' = "failed" )
             /\ pc' = "advance" => UNCHANGED <<pcb, bak, ret>>
      ]_vars

\* C24 witness: a first net went without a net number and a second one's
\* persistence raised; both are marked in occupied and the board file holds
\* no segment.
C24_Witness ==
    /\ pc = "ack"
    /\ net_index >= 1
    /\ ret.tag \in { "raised_format", "raised_parse" }
    /\ ~HasSegment(pcb)
    /\ \E c, e \in DOMAIN occupied :
         occupied[c] = NetChar(0) /\ occupied[e] = NetChar(net_index)


====
